---- MODULE Spec2Model ----
(***************************************************************************)
(* State-machine model of the Telegram news bot (src/main.py).             *)
(*                                                                         *)
(* One process run is: the module-level start-up (environment check, load  *)
(* of sent_db.json), main() looping over FEEDS and calling process_feed    *)
(* for each source, and the final json.dump of the dedup store.  Runs      *)
(* follow one another; the only thing a run hands to the next one is the   *)
(* file sent_db.json.                                                      *)
(*                                                                         *)
(* Texts are sequences of one-character strings, so that strip(), lower(), *)
(* substring tests and the "::" concatenation of mk_hash are computed and  *)
(* not assumed.  hashlib.sha256 is modelled as injective: a digest is      *)
(* represented by the text that was digested.                              *)
(***************************************************************************)
EXTENDS Naturals, Integers, Sequences, FiniteSets, Bags, TLC

\* ---------------------------------------------------------------- bounds
\* Number of process runs explored.
MaxRuns == 2
\* Largest number of entries a fetched feed holds.
MaxFeedLen == 4

\* ---------------------------------------------------------------- config
\* FEEDS.keys() in insertion order (the URLs play no role in the model).
FEEDS ==
  << <<"C","N","B","C">>, <<"K","o","n","t","a","n">>, <<"B","i","s","n","i","s">>,
     <<"I","D","N","F","i","n","a","n","c","i","a","l","s">>, <<"I","D","X">> >>

KEYWORDS ==
  <<
   <<"I","H","S","G">>, <<"B","E","I">>, <<"I","D","X">>, <<"r","u","p","i","a","h">>,
   <<"i","n","f","l","a","s","i">>, <<"B","I"," ","r","a","t","e">>,
   <<"s","u","k","u"," ","b","u","n","g","a">>, <<"o","b","l","i","g","a","s","i">>,
   <<"S","U","N">>, <<"B","B","C","A">>, <<"B","B","R","I">>, <<"B","M","R","I">>,
   <<"B","B","N","I">>, <<"A","S","I","I">>, <<"T","L","K","M">>, <<"A","N","T","M">>,
   <<"I","N","C","O">>, <<"M","D","K","A">>, <<"A","D","R","O">>, <<"P","G","A","S">>,
   <<"P","T","B","A">>, <<"B","R","I","S">>, <<"A","M","M","N">>, <<"G","O","T","O">>,
   <<"A","R","T","O">>, <<"U","N","V","R">>, <<"I","C","B","P">>, <<"I","N","D","F">>,
   <<"K","L","B","F">>, <<"C","P","I","N">>, <<"S","M","G","R">>, <<"I","N","T","P">>,
   <<"A","S","S","A">>, <<"B","U","K","A">>, <<"S","I","D","O">>, <<"H","E","A","L">>,
   <<"M","T","E","L">>, <<"M","E","D","C">>, <<"I","P","O">>,
   <<"d","i","v","i","d","e","n">>, <<"b","u","y","b","a","c","k">>,
   <<"e","m","i","t","e","n">>, <<"r","i","g","h","t"," ","i","s","s","u","e">>,
   <<"p","a","s","a","r"," ","m","o","d","a","l">>, <<"s","a","h","a","m">>,
   <<"e","k","o","n","o","m","i">>, <<"m","a","r","k","e","t">>, <<"b","u","r","s","a">>
  >>

ALLOW_ALL_IF_NO_MATCH == TRUE

\* The literal 3 of "if sent_count >= 3: break".
SentCap == 3

\* The sources the model iterates over: the first two of FEEDS, in order.
Sources == SubSeq(FEEDS, 1, 2)

\* ---------------------------------------------------------------- texts
Upper == <<"A","B","C","D","E","F","G","H","I","J","K","L","M",
           "N","O","P","Q","R","S","T","U","V","W","X","Y","Z">>
Lower == <<"a","b","c","d","e","f","g","h","i","j","k","l","m",
           "n","o","p","q","r","s","t","u","v","w","x","y","z">>

LowerChar(c) ==
  IF \E i \in 1..Len(Upper) : Upper[i] = c
    THEN Lower[CHOOSE i \in 1..Len(Upper) : Upper[i] = c]
    ELSE c

\* str.lower()
ToLower(s) == [i \in 1..Len(s) |-> LowerChar(s[i])]

IsSpace(c) == c \in {" ", "\t", "\n"}

RECURSIVE LStrip(_)
LStrip(s) == IF s # <<>> /\ IsSpace(Head(s)) THEN LStrip(Tail(s)) ELSE s

RECURSIVE RStrip(_)
RStrip(s) ==
  IF s # <<>> /\ IsSpace(s[Len(s)]) THEN RStrip(SubSeq(s, 1, Len(s) - 1)) ELSE s

\* str.strip()
Strip(s) == RStrip(LStrip(s))

\* Python's "k in blob" for strings.
Contains(k, blob) ==
  \E i \in 0..(Len(blob) - Len(k)) : SubSeq(blob, i + 1, i + Len(k)) = k

\* BeautifulSoup(html, "lxml").get_text(" ", strip=True): the markup between
\* "<" and ">" is dropped and the remaining text is stripped.
RECURSIVE DropTags(_, _)
DropTags(s, inTag) ==
  IF s = <<>> THEN <<>>
  ELSE IF Head(s) = "<" THEN DropTags(Tail(s), TRUE)
  ELSE IF Head(s) = ">" /\ inTag THEN DropTags(Tail(s), FALSE)
  ELSE IF inTag THEN DropTags(Tail(s), TRUE)
  ELSE <<Head(s)>> \o DropTags(Tail(s), FALSE)

GetText(html) == Strip(DropTags(html, FALSE))

\* match_keywords testing "k in blob" with the keyword as it is written.
match_keywords_CaseSensitive(title_, summary_, body_) ==
  LET blob == ToLower(title_ \o <<" ">> \o summary_ \o <<" ">> \o body_)
  IN  SelectSeq(KEYWORDS, LAMBDA k : Contains(k, blob))

\* match_keywords(title, summary, body)
match_keywords(title_, summary_, body_) ==
  LET blob == ToLower(title_ \o <<" ">> \o summary_ \o <<" ">> \o body_)
  IN  SelectSeq(KEYWORDS, LAMBDA k : Contains(ToLower(k), blob))

\* The digest taken over "source::title" alone.
mk_hash_NoLink(source_, title_, link_) == source_ \o <<":", ":">> \o title_

\* mk_hash(source, title, link): the text handed to sha256, which is taken to
\* give different digests for different texts.
mk_hash(source_, title_, link_) ==
  source_ \o <<":", ":">> \o title_ \o <<":", ":">> \o link_

\* ---------------------------------------------------------------- summary
SUMMARY_LIMIT == 600
MessageLimit == 4000

\* s[:n]
Take(s, n) == SubSeq(s, 1, IF n < Len(s) THEN n ELSE Len(s))

\* re.sub(r"\s+", " ", s): every run of whitespace becomes one space.
RECURSIVE Collapse(_, _)
Collapse(s, inSpace) ==
  IF s = <<>> THEN <<>>
  ELSE IF IsSpace(Head(s))
         THEN (IF inSpace THEN <<>> ELSE <<" ">>) \o Collapse(Tail(s), TRUE)
         ELSE <<Head(s)>> \o Collapse(Tail(s), FALSE)

normalize_text(s) == Strip(Collapse(s, FALSE))

IsEnd(c) == c \in {".", "!", "?"}

\* re.split(r"(?<=[.!?])\s+", text): a run of whitespace that follows a sentence
\* end separates two pieces; cur is the piece being read.
RECURSIVE Pieces(_, _)
Pieces(s, cur) ==
  IF s = <<>> THEN <<cur>>
  ELSE IF IsSpace(Head(s)) /\ cur # <<>> /\ IsEnd(cur[Len(cur)])
         THEN <<cur>> \o Pieces(LStrip(s), <<>>)
         ELSE Pieces(Tail(s), Append(cur, Head(s)))

sentence_split(text) ==
  LET ps == Pieces(text, <<>>)
  IN  SelectSeq([i \in 1..Len(ps) |-> Strip(ps[i])], LAMBDA p : p # <<>>)

\* The for loop of simple_lead_summary: sentences are taken while their lengths
\* add up to at most max_chars and fewer than 3 are taken.
RECURSIVE Lead(_, _, _, _)
Lead(sents, out, total, max_chars) ==
  IF sents = <<>> \/ total + Len(Head(sents)) > max_chars \/ Len(out) >= 3
    THEN out
    ELSE Lead(Tail(sents), Append(out, Head(sents)), total + Len(Head(sents)), max_chars)

\* " ".join(out)
RECURSIVE Join(_)
Join(out) ==
  IF out = <<>> THEN <<>>
  ELSE IF Len(out) = 1 THEN out[1]
  ELSE out[1] \o <<" ">> \o Join(Tail(out))

simple_lead_summary(text, max_chars) ==
  LET out == Lead(sentence_split(text), <<>>, 0, max_chars)
  IN  IF out # <<>> THEN Join(out) ELSE Take(text, max_chars)

\* What the POST to the inference endpoint can come to: an exception (timeout,
\* HTTP status, a body that is not JSON, a summary_text that is not a string), a
\* document of another shape, or a list whose first item has a summary_text.
RemoteError == [kind |-> "error", text |-> <<>>]
RemoteOther == [kind |-> "other", text |-> <<>>]
RemoteSummary(t) == [kind |-> "summary", text |-> t]

\* hf_summarize with HF_TOKEN (set or not) and the endpoint's answer as arguments.
hf_summarize(text, max_chars, token, resp) ==
  IF ~token THEN simple_lead_summary(text, max_chars)
  ELSE IF resp.kind = "summary" THEN Take(normalize_text(resp.text), max_chars)
  ELSE simple_lead_summary(text, max_chars)

\* The grave accent, which a string of this language cannot hold.
Grave == "grave"

\* title.replace("*","").replace("_","").replace(grave accent,"")
Safe(s) == SelectSeq(s, LAMBDA c : c \notin {"*", "_", Grave})

\* strftime("%Y-%m-%d %H:%M") of the clock: sixteen characters.
Now == <<"2","0","2","5","-","0","1","-","0","1"," ","0","0",":","0","0">>

format_message(source_, title_, link_, summary_) ==
  Take(<<"N", " ", "*">> \o Safe(title_) \o <<"*", "\n", "_">> \o source_
         \o <<"_", " ", "-", " ", "T", " ">> \o Now \o <<"\n", "\n">>
         \o Safe(summary_) \o <<"\n", "\n", ">", " ">> \o link_,
       MessageLimit)

\* int(THREAD_ID): digits, with surrounding whitespace allowed; anything else
\* raises ValueError.
Digits == <<"0","1","2","3","4","5","6","7","8","9">>
IsDigit(c) == \E i \in 1..Len(Digits) : Digits[i] = c
DigitValue(c) == (CHOOSE i \in 1..Len(Digits) : Digits[i] = c) - 1
IsInt(s) == Strip(s) # <<>> /\ \A i \in 1..Len(Strip(s)) : IsDigit(Strip(s)[i])
RECURSIVE IntOf(_)
IntOf(s) == IF s = <<>> THEN 0 ELSE 10 * IntOf(SubSeq(s, 1, Len(s) - 1)) + DigitValue(s[Len(s)])
ParseInt(s) == IntOf(Strip(s))

\* ---------------------------------------------------------------- feeds
\* Entries as the feed client returns them (entry.get("title"), "link", "summary");
\* image is the URL of the picture the feed attaches to the entry, if any.
ArtSaham  == [title |-> <<" ","S","a","h","a","m">>, link |-> <<"u","1">>, summary |-> <<>>,
              image |-> <<>>]
ArtCuaca  == [title |-> <<"C","u","a","c","a">>, link |-> <<"u","2">>,
              summary |-> <<"<","p",">","I","H","S","G","<","/","p",">">>, image |-> <<>>]
ArtBola   == [title |-> <<"B","o","l","a">>, link |-> <<"u","3"," ">>, summary |-> <<>>,
              image |-> <<>>]
ArtFilm   == [title |-> <<"F","i","l","m">>, link |-> <<"u","4">>,
              summary |-> <<"<","b",">","b","a","r","u","<","/","b",">">>,
              image |-> <<"i","4">>]
ArtNoTitle == [title |-> <<" ">>, link |-> <<"u","5">>, summary |-> <<>>, image |-> <<>>]

\* What a source has published over time: the first source a long list (with a
\* repeated entry and one without a title), the others a short one.  A feed is
\* the window of the most recent MaxFeedLen entries of the first n published.
Timeline(s) ==
  IF s = 1 THEN <<ArtSaham, ArtSaham, ArtCuaca, ArtBola, ArtFilm, ArtNoTitle>>
           ELSE <<ArtSaham>>

FeedWindow(s, n) ==
  SubSeq(Timeline(s), IF n > MaxFeedLen THEN n - MaxFeedLen + 1 ELSE 1, n)

\* What fetch_article_text can return: "" after a failure, or the page's text.
Bodies == { <<>>, <<"B","u","r","s","a">> }

\* What the inference endpoint can answer in a run.
Remote ==
  { RemoteError, RemoteOther, RemoteSummary(<<" ">>),
    RemoteSummary(<<"I","H","S","G"," "," ","n","a","i","k",".">>) }

\* Values of THREAD_ID: not set, a topic number, a text that is not a number.
ThreadIds == { <<>>, <<"7">>, <<"x">> }

\* ---------------------------------------------------------------- state
VARIABLES
  env,           \* os.getenv of the running process: BOT_TOKEN, CHANNEL_ID, HF_TOKEN
                 \* set or not, THREAD_ID as a text
  allow_all,     \* ALLOW_ALL_IF_NO_MATCH as the running program has it
  file,          \* sent_db.json on disk
  web,           \* per source, how many entries of its Timeline are published
  pc,            \* position of the process
  sent_hashes,   \* the global set
  src,           \* index in FEEDS of main's for loop
  entries,       \* feed.entries of the running process_feed
  idx,           \* index of the for loop over feed.entries
  sent_count, total_checked,
  title, link, summary_hint, h, body, matched,   \* process_feed's locals
  summary, msg,
  call,          \* the last call of the Bot API made by this run
  run,           \* number of runs started
  loaded,        \* sent_hashes as loaded at the start of this run
  events,        \* what this run printed, in order
  saves,         \* number of completed json.dump calls of this run
  delivered,     \* over all runs: hash -> number of send_message calls that returned
  prevFailed,    \* <<source, hash>> of the [ERROR SEND] events of the previous run
  prevSent,      \* hashes of the [SENT] events of the previous run
  prevRejected,  \* <<source, hash>> of the [SKIP] No keyword match events of the
                 \* previous run
  probe          \* a function applied outside a run: its arguments and its result

locals == <<title, link, summary_hint, h, body, matched, summary, msg>>
loopv  == <<entries, idx, sent_count, total_checked>>
world  == <<web, call>>
hist   == <<prevFailed, prevSent, prevRejected, probe>>
vars   == <<env, allow_all, file, web, pc, sent_hashes, src, entries, idx,
            sent_count, total_checked, title, link, summary_hint, h, body, matched,
            summary, msg, call, run, loaded, events, saves, delivered,
            prevFailed, prevSent, prevRejected, probe>>

SrcIdx == 1..Len(Sources)

NoFile == [exists |-> FALSE, complete |-> FALSE, items |-> {}]
\* open(DB_PATH, "w") leaves a file of zero bytes.
Truncated == [exists |-> TRUE, complete |-> FALSE, items |-> {}]
Stored(S) == [exists |-> TRUE, complete |-> TRUE, items |-> S]

Stopped == {"off", "done", "aborted", "raised", "killed"}

Event(k, s, x) == [kind |-> k, source |-> s, hash |-> x]

NoCall == [method |-> "none", chat_id |-> "", thread |-> {}, text |-> <<>>]
NoProbe == [fn |-> "none"]
Log(k, s, x) == events' = Append(events, Event(k, s, x))

\* ---------------------------------------------------------------- start-up
InitRun(flag) ==
  /\ env = [BOT_TOKEN |-> FALSE, CHANNEL_ID |-> FALSE, THREAD_ID |-> <<>>,
            HF_TOKEN |-> FALSE]
  /\ allow_all = flag
  /\ file = NoFile
  /\ web \in [SrcIdx -> 0..Len(Timeline(1))]
  /\ \A s \in SrcIdx : web[s] <= Len(Timeline(s))
  /\ pc = "off"
  /\ sent_hashes = {}
  /\ src = 1
  /\ entries = <<>>
  /\ idx = 1
  /\ sent_count = 0
  /\ total_checked = 0
  /\ title = <<>> /\ link = <<>> /\ summary_hint = <<>>
  /\ h = <<>> /\ body = <<>> /\ matched = <<>>
  /\ summary = <<>> /\ msg = <<>>
  /\ call = NoCall
  /\ run = 0
  /\ loaded = {}
  /\ events = <<>>
  /\ saves = 0
  /\ delivered = EmptyBag
  /\ prevFailed = {}
  /\ prevSent = {}
  /\ prevRejected = {}

InitWith(flag) == InitRun(flag) /\ probe = NoProbe

Init == InitWith(ALLOW_ALL_IF_NO_MATCH)

\* The scheduler starts the program: a fresh process with its environment, the
\* optional variables THREAD_ID and HF_TOKEN drawn from the given sets.
StartRunWith(threads, tokens) ==
  /\ pc \in Stopped
  /\ run < MaxRuns
  /\ \E t \in BOOLEAN, c \in BOOLEAN, th \in threads, hf \in tokens :
       env' = [BOT_TOKEN |-> t, CHANNEL_ID |-> c, THREAD_ID |-> th, HF_TOKEN |-> hf]
  /\ pc' = "env"
  /\ run' = run + 1
  /\ sent_hashes' = {}
  /\ src' = 1
  /\ entries' = <<>> /\ idx' = 1 /\ sent_count' = 0 /\ total_checked' = 0
  /\ title' = <<>> /\ link' = <<>> /\ summary_hint' = <<>>
  /\ h' = <<>> /\ body' = <<>> /\ matched' = <<>>
  /\ summary' = <<>> /\ msg' = <<>>
  /\ call' = NoCall
  /\ loaded' = {}
  /\ events' = <<>>
  /\ saves' = 0
  /\ prevFailed' = { <<events[i].source, events[i].hash>> :
                       i \in { j \in 1..Len(events) : events[j].kind = "ERROR_SEND" } }
  /\ prevSent' = { events[i].hash :
                       i \in { j \in 1..Len(events) : events[j].kind = "SENT" } }
  /\ prevRejected' = { <<events[i].source, events[i].hash>> :
                       i \in { j \in 1..Len(events) : events[j].kind = "SKIP_NOMATCH" } }
  /\ UNCHANGED <<allow_all, file, web, delivered, probe>>

\* A run with the optional variables THREAD_ID and HF_TOKEN not set.
StartRun == StartRunWith({<<>>}, {FALSE})

\* The assertion testing BOT_TOKEN alone.
CheckEnv_OnlyToken ==
  /\ pc = "env"
  /\ pc' = IF env.BOT_TOKEN THEN "load" ELSE "aborted"
  /\ UNCHANGED <<env, allow_all, file, world, sent_hashes, src, loopv, locals,
                 run, loaded, events, saves, delivered, hist>>

\* assert BOT_TOKEN and CHANNEL_ID
CheckEnv ==
  /\ pc = "env"
  /\ pc' = IF env.BOT_TOKEN /\ env.CHANNEL_ID THEN "load" ELSE "aborted"
  /\ UNCHANGED <<env, allow_all, file, world, sent_hashes, src, loopv, locals,
                 run, loaded, events, saves, delivered, hist>>

\* The cache block reading a key the file does not have ("item" for "items"):
\* sent_db.get returns its default and the store starts empty.
LoadDb_WrongKey ==
  /\ pc = "load"
  /\ IF file.exists /\ ~file.complete
       THEN /\ pc' = "raised"
            /\ UNCHANGED <<sent_hashes, loaded>>
       ELSE /\ sent_hashes' = {}
            /\ loaded' = sent_hashes'
            /\ pc' = "main"
  /\ UNCHANGED <<env, allow_all, file, world, src, loopv, locals,
                 run, events, saves, delivered, hist>>

\* The cache block: json.load raises on a file that is not a complete document.
LoadDb ==
  /\ pc = "load"
  /\ IF file.exists /\ ~file.complete
       THEN /\ pc' = "raised"
            /\ UNCHANGED <<sent_hashes, loaded>>
       ELSE /\ sent_hashes' = (IF file.exists THEN file.items ELSE {})
            /\ loaded' = sent_hashes'
            /\ pc' = "main"
  /\ UNCHANGED <<env, allow_all, file, world, src, loopv, locals,
                 run, events, saves, delivered, hist>>

\* ---------------------------------------------------------------- main()
\* main's loop without its try statement: the error of a feed ends the process.
FeedRaise_Propagates ==
  /\ pc = "main"
  /\ src <= Len(Sources)
  /\ Log("ERROR_FEED", Sources[src], <<>>)
  /\ pc' = "raised"
  /\ UNCHANGED <<env, allow_all, file, world, sent_hashes, src, loopv, locals,
                 run, loaded, saves, delivered, hist>>

\* for src, u in FEEDS.items(): process_feed raises in feedparser.parse, main's
\* except clause prints [ERROR FEED] and the loop goes on.
FeedRaise ==
  /\ pc = "main"
  /\ src <= Len(Sources)
  /\ Log("ERROR_FEED", Sources[src], <<>>)
  /\ src' = src + 1
  /\ pc' = "main"
  /\ UNCHANGED <<env, allow_all, file, world, sent_hashes, loopv, locals,
                 run, loaded, saves, delivered, hist>>

\* process_feed walking the feed from its last entry to its first.
FeedParsed_Reversed ==
  /\ pc = "main"
  /\ src <= Len(Sources)
  /\ entries' = [i \in 1..Len(FeedWindow(src, web[src])) |->
                   FeedWindow(src, web[src])[Len(FeedWindow(src, web[src])) + 1 - i]]
  /\ sent_count' = 0
  /\ total_checked' = 0
  /\ idx' = 1
  /\ pc' = "feed"
  /\ UNCHANGED <<env, allow_all, file, world, sent_hashes, src, locals,
                 run, loaded, events, saves, delivered, hist>>

\* process_feed up to the for loop: feed = feedparser.parse(url), the counters.
FeedParsed ==
  /\ pc = "main"
  /\ src <= Len(Sources)
  /\ entries' = FeedWindow(src, web[src])
  /\ sent_count' = 0
  /\ total_checked' = 0
  /\ idx' = 1
  /\ pc' = "feed"
  /\ UNCHANGED <<env, allow_all, file, world, sent_hashes, src, locals,
                 run, loaded, events, saves, delivered, hist>>

\* "if sent_count >= 3: break", with the comparison a plausible slip would write.
CapReached_OffByOne == sent_count > SentCap

\* if sent_count >= 3: break
CapReached == sent_count >= SentCap

\* The loop over feed.entries ends (exhausted, or the break at sent_count >= 3):
\* [SUMMARY] is printed and process_feed returns to main's loop.
FeedEnd ==
  /\ pc = "feed"
  /\ (idx > Len(entries) \/ CapReached)
  /\ Log("SUMMARY", Sources[src], <<>>)
  /\ src' = src + 1
  /\ pc' = "main"
  /\ UNCHANGED <<env, allow_all, file, world, sent_hashes, loopv, locals,
                 run, loaded, saves, delivered, hist>>

\* The loop body may run for entries[idx].
InLoop == pc = "feed" /\ idx <= Len(entries) /\ ~CapReached

EntryTitle == Strip(entries[idx].title)
EntryLink == Strip(entries[idx].link)
EntryHint == GetText(entries[idx].summary)

\* if not title or not link: continue
SkipMissing ==
  /\ InLoop
  /\ (EntryTitle = <<>> \/ EntryLink = <<>>)
  /\ total_checked' = total_checked + 1
  /\ title' = EntryTitle /\ link' = EntryLink /\ summary_hint' = EntryHint
  /\ Log("SKIP_MISSING", Sources[src], <<>>)
  /\ idx' = idx + 1
  /\ UNCHANGED <<env, allow_all, file, world, pc, sent_hashes, src, entries, sent_count,
                 h, body, matched, summary, msg, run, loaded, saves, delivered, hist>>

\* The test "if h in sent_hashes" placed after the fetch of the body.
SkipDuplicate_AfterFetch ==
  /\ InLoop
  /\ EntryTitle # <<>> /\ EntryLink # <<>>
  /\ mk_hash(Sources[src], EntryTitle, EntryLink) \in sent_hashes
  /\ total_checked' = total_checked + 1
  /\ title' = EntryTitle /\ link' = EntryLink /\ summary_hint' = EntryHint
  /\ h' = mk_hash(Sources[src], EntryTitle, EntryLink)
  /\ \E b \in Bodies : body' = b
  /\ Log("SKIP_SENT", Sources[src], h')
  /\ idx' = idx + 1
  /\ UNCHANGED <<env, allow_all, file, world, pc, sent_hashes, src, entries, sent_count,
                 matched, summary, msg, run, loaded, saves, delivered, hist>>

\* if h in sent_hashes: continue
SkipDuplicate ==
  /\ InLoop
  /\ EntryTitle # <<>> /\ EntryLink # <<>>
  /\ mk_hash(Sources[src], EntryTitle, EntryLink) \in sent_hashes
  /\ total_checked' = total_checked + 1
  /\ title' = EntryTitle /\ link' = EntryLink /\ summary_hint' = EntryHint
  /\ h' = mk_hash(Sources[src], EntryTitle, EntryLink)
  /\ Log("SKIP_SENT", Sources[src], h')
  /\ idx' = idx + 1
  /\ UNCHANGED <<env, allow_all, file, world, pc, sent_hashes, src, entries, sent_count,
                 body, matched, summary, msg, run, loaded, saves, delivered, hist>>

\* "if not matched and not ALLOW_ALL_IF_NO_MATCH"
Rejected(m, flag) == m = <<>> /\ ~flag

\* base_text = body or summary_hint or title
base_text(body_, summary_hint_, title_) ==
  IF body_ # <<>> THEN body_ ELSE IF summary_hint_ # <<>> THEN summary_hint_ ELSE title_

\* An unseen entry: the body is fetched, the keywords matched, and the entry is
\* either skipped ([SKIP] No keyword match) or taken to the send ([MATCH]).
ExtractAndFilter ==
  /\ InLoop
  /\ EntryTitle # <<>> /\ EntryLink # <<>>
  /\ mk_hash(Sources[src], EntryTitle, EntryLink) \notin sent_hashes
  /\ total_checked' = total_checked + 1
  /\ title' = EntryTitle /\ link' = EntryLink /\ summary_hint' = EntryHint
  /\ h' = mk_hash(Sources[src], EntryTitle, EntryLink)
  /\ \E b \in Bodies : body' = b
  /\ matched' = match_keywords(title', summary_hint', body')
  /\ IF Rejected(matched', allow_all)
       THEN /\ Log("SKIP_NOMATCH", Sources[src], h')
            /\ idx' = idx + 1
            /\ pc' = "feed"
            /\ UNCHANGED <<summary, msg>>
       ELSE /\ Log("MATCH", Sources[src], h')
            /\ \E r \in Remote :
                 summary' = hf_summarize(base_text(body', summary_hint', title'),
                                         SUMMARY_LIMIT, env.HF_TOKEN, r)
            /\ msg' = format_message(Sources[src], title', link', summary')
            /\ idx' = idx
            /\ pc' = "send"
  /\ UNCHANGED <<env, allow_all, file, world, sent_hashes, src, entries, sent_count,
                 run, loaded, saves, delivered, hist>>

\* The arguments of bot.send_message: message_thread_id is passed when THREAD_ID
\* is set.
SendCall ==
  [method |-> "send_message", chat_id |-> "CHANNEL_ID",
   thread |-> IF env.THREAD_ID = <<>> THEN {} ELSE {ParseInt(env.THREAD_ID)},
   text |-> msg]

\* int(THREAD_ID) raises before bot.send_message is called.
ThreadRaises == env.THREAD_ID # <<>> /\ ~IsInt(env.THREAD_ID)

\* bot.send_message returned: [SENT], sent_hashes.add(h), sent_count += 1.
SendOk ==
  /\ pc = "send"
  /\ ~ThreadRaises
  /\ call' = SendCall
  /\ Log("SENT", Sources[src], h)
  /\ sent_hashes' = sent_hashes \cup {h}
  /\ sent_count' = sent_count + 1
  /\ delivered' = delivered (+) SetToBag({h})
  /\ idx' = idx + 1
  /\ pc' = "feed"
  /\ UNCHANGED <<env, allow_all, file, web, src, entries, total_checked, locals,
                 run, loaded, saves, hist>>

\* The failure path with sent_hashes.add(h) placed after the try statement.
SendFail_AddsHash ==
  /\ pc = "send"
  /\ Log("ERROR_SEND", Sources[src], h)
  /\ call' = IF ThreadRaises THEN call ELSE SendCall
  /\ sent_hashes' = sent_hashes \cup {h}
  /\ idx' = idx + 1
  /\ pc' = "feed"
  /\ UNCHANGED <<env, allow_all, file, web, src, entries, sent_count,
                 total_checked, locals, run, loaded, saves, delivered, hist>>

\* The failure path with "sent_count += 1" placed after the try statement.
SendFail_Counts ==
  /\ pc = "send"
  /\ Log("ERROR_SEND", Sources[src], h)
  /\ call' = IF ThreadRaises THEN call ELSE SendCall
  /\ sent_count' = sent_count + 1
  /\ idx' = idx + 1
  /\ pc' = "feed"
  /\ UNCHANGED <<env, allow_all, file, web, sent_hashes, src, entries,
                 total_checked, locals, run, loaded, saves, delivered, hist>>

\* bot.send_message, or int(THREAD_ID) before it, raised: the except clause
\* prints [ERROR SEND].
SendFail ==
  /\ pc = "send"
  /\ Log("ERROR_SEND", Sources[src], h)
  /\ call' = IF ThreadRaises THEN call ELSE SendCall
  /\ idx' = idx + 1
  /\ pc' = "feed"
  /\ UNCHANGED <<env, allow_all, file, web, sent_hashes, src, entries, sent_count,
                 total_checked, locals, run, loaded, saves, delivered, hist>>

\* with open(DB_PATH, "w") ...: the file is truncated when it is opened.
SaveOpen ==
  /\ pc = "main"
  /\ src > Len(Sources)
  /\ file' = Truncated
  /\ pc' = "dump"
  /\ UNCHANGED <<env, allow_all, world, sent_hashes, src, loopv, locals,
                 run, loaded, events, saves, delivered, hist>>

\* The dump writing sent_db, the dictionary as it was loaded.
SaveDump_StaleDb ==
  /\ pc = "dump"
  /\ file' = Stored(loaded)
  /\ saves' = saves + 1
  /\ pc' = "done"
  /\ UNCHANGED <<env, allow_all, world, sent_hashes, src, loopv, locals,
                 run, loaded, events, delivered, hist>>

\* The dump writing only the hashes added by this run.
SaveDump_OnlyNew ==
  /\ pc = "dump"
  /\ file' = Stored(sent_hashes \ loaded)
  /\ saves' = saves + 1
  /\ pc' = "done"
  /\ UNCHANGED <<env, allow_all, world, sent_hashes, src, loopv, locals,
                 run, loaded, events, delivered, hist>>

\* json.dump({"items": list(sent_hashes)}, f, ...) and the close of the file.
SaveDump ==
  /\ pc = "dump"
  /\ file' = Stored(sent_hashes)
  /\ saves' = saves + 1
  /\ pc' = "done"
  /\ UNCHANGED <<env, allow_all, world, sent_hashes, src, loopv, locals,
                 run, loaded, events, delivered, hist>>

\* The process is stopped from outside (a cancelled job, a power cut).  While
\* json.dump is writing, any part of the document may have reached the disk.
Kill ==
  /\ pc \notin Stopped
  /\ pc' = "killed"
  /\ IF pc = "dump"
       THEN \E part \in SUBSET sent_hashes :
              file' = [exists |-> TRUE, complete |-> FALSE, items |-> part]
       ELSE file' = file
  /\ UNCHANGED <<env, allow_all, world, sent_hashes, src, loopv, locals,
                 run, loaded, events, saves, delivered, hist>>

Next ==
  \/ StartRun
  \/ CheckEnv
  \/ LoadDb
  \/ FeedRaise
  \/ FeedParsed
  \/ FeedEnd
  \/ SkipMissing
  \/ SkipDuplicate
  \/ ExtractAndFilter
  \/ SendOk
  \/ SendFail
  \/ SaveOpen
  \/ SaveDump

\* Runs that are never interrupted.
Spec == Init /\ [][Next]_vars

\* Runs that may be stopped from outside at any point.
CrashSpec == Init /\ [][Next \/ Kill]_vars

\* One run of the same program with either value of the override flag and any
\* environment.
FilterInit == \E flag \in BOOLEAN : InitWith(flag)
FirstRun == run = 0 /\ StartRunWith(ThreadIds, BOOLEAN)
FilterNext ==
  \/ FirstRun
  \/ CheckEnv
  \/ LoadDb
  \/ FeedRaise
  \/ FeedParsed
  \/ FeedEnd
  \/ SkipMissing
  \/ SkipDuplicate
  \/ ExtractAndFilter
  \/ SendOk
  \/ SendFail
  \/ SaveOpen
  \/ SaveDump
FilterSpec == FilterInit /\ [][FilterNext]_vars

\* Runs of the program with the override flag off.
StrictInit == InitWith(FALSE)
StrictSpec == StrictInit /\ [][Next]_vars

\* ---------------------------------------------------------------- properties
EventsOf(k) == { i \in 1..Len(events) : events[i].kind = k }

\* Hashes of this run's [SENT] events.
SentNow == { events[i].hash : i \in EventsOf("SENT") }

\* <<source, hash>> of this run's delivery attempts.
Attempted ==
  { <<events[i].source, events[i].hash>> : i \in EventsOf("SENT") \cup EventsOf("ERROR_SEND") }

\* Number of this run's [SENT] events of a source.
SentCountOf(s) == Cardinality({ i \in EventsOf("SENT") : events[i].source = s })

\* The source's process_feed returned in this run.
Summarised(s) == \E i \in EventsOf("SUMMARY") : events[i].source = s

LastKind == IF events = <<>> THEN "NONE" ELSE events[Len(events)].kind

\* The process is past the load of sent_db.json.
AfterLoad == pc \in {"main", "feed", "send", "dump", "done"}

\* C1: the dedup store holds a hash if and only if a send_message call for that
\* hash has returned, in this run or an earlier one; the only step that changes
\* the store of a running process is the successful send, which adds its hash.
C1_StoreIffDelivered ==
  /\ [](AfterLoad => sent_hashes = BagToSet(delivered))
  /\ []((file.exists /\ file.complete) => file.items \subseteq BagToSet(delivered))
  /\ [][ (AfterLoad /\ AfterLoad' /\ sent_hashes' # sent_hashes)
           => /\ pc = "send"
              /\ sent_hashes' = sent_hashes \cup {h}
              /\ events' = Append(events, Event("SENT", Sources[src], h)) ]_vars

\* A second run that holds a hash delivered by the first run and one delivered
\* by itself, after a delivery failed.
C1_Witness ==
  /\ run = 2 /\ pc = "done"
  /\ loaded # {}
  /\ SentNow \ loaded # {}
  /\ EventsOf("ERROR_SEND") # {}

\* C2 (as claimed, last clause): at the end of a run in which a source's feed
\* was processed, every article of that source whose delivery failed in the
\* previous run was absent from the loaded store and has been attempted again.
C2_RetriedNextRun ==
  pc = "done" =>
    \A f \in prevFailed :
      Summarised(f[1]) => (f[2] \notin loaded /\ f \in Attempted)

\* C2 (amended): a failed send leaves the store and sent_count as they are and
\* the loop goes on with the next entry of the same source; in the next run the
\* article, unless a later send of it succeeded in the failing run, is absent
\* from the loaded store, and it is attempted again whenever the source's feed
\* is processed and fewer than 3 of its articles are delivered in that run.
C2_FailureWithheld ==
  /\ [][ (pc = "send" /\ LastKind' = "ERROR_SEND")
           => /\ sent_hashes' = sent_hashes
              /\ sent_count' = sent_count
              /\ h \notin sent_hashes'
              /\ src' = src /\ entries' = entries
              /\ idx' = idx + 1 /\ pc' = "feed" ]_vars
  /\ [](AfterLoad =>
          \A f \in prevFailed :
            f[2] \notin prevSent =>
              /\ f[2] \notin loaded
              /\ (pc = "done" /\ Summarised(f[1]) /\ SentCountOf(f[1]) < SentCap)
                    => f \in Attempted)

\* A second run has attempted again an article whose delivery failed in the first.
C2_Witness ==
  /\ run = 2 /\ pc = "done"
  /\ \E f \in prevFailed : f[2] \notin prevSent /\ f \in Attempted

\* C3: no hash has two successful deliveries, in one run or across runs.
C3_ExactlyOnce == \A x \in BagToSet(delivered) : CopiesIn(x, delivered) = 1

\* A run has skipped as already sent both an article delivered by an earlier run
\* and a repeated entry of an article it delivered itself.
C3_Witness ==
  /\ \E i \in EventsOf("SKIP_SENT") : events[i].hash \in loaded
  /\ \E i \in EventsOf("SKIP_SENT") : events[i].hash \in SentNow \ loaded

\* The dedup key of a feed entry of source number s.
EntryHash(s, e) == mk_hash(Sources[s], Strip(e.title), Strip(e.link))

\* An entry that has a title and a link.
Valid(e) == Strip(e.title) # <<>> /\ Strip(e.link) # <<>>

\* The hashes of this run's [SENT] events of a source, in order.
SentSeqOf(s) ==
  LET ev == SelectSeq(events, LAMBDA e : e.kind = "SENT" /\ e.source = s)
  IN  [i \in 1..Len(ev) |-> ev[i].hash]

\* process_feed has just returned for source number src - 1, whose feed held
\* at least 3 entries, all with title and link, pairwise different, none in the
\* store when the run started, and no send of the source failed.
CapCase ==
  /\ pc = "main" /\ LastKind = "SUMMARY" /\ src > 1
  /\ Len(entries) >= SentCap
  /\ \A i \in 1..Len(entries) :
        Valid(entries[i]) /\ EntryHash(src - 1, entries[i]) \notin loaded
  /\ \A i, j \in 1..Len(entries) :
        i # j => EntryHash(src - 1, entries[i]) # EntryHash(src - 1, entries[j])
  /\ \A i \in EventsOf("ERROR_SEND") \cup EventsOf("SKIP_NOMATCH") :
        events[i].source # Sources[src - 1]

\* C4: in a run no source has more than 3 successful deliveries; once sent_count
\* has reached 3 the next step ends the source's loop without extracting, sending
\* or storing anything; and of N >= 3 unseen articles whose sends all succeed
\* exactly the first 3 are delivered and the other N - 3 stay out of the store.
C4_PerSourceCap ==
  /\ [](\A s \in SrcIdx : SentCountOf(Sources[s]) <= SentCap)
  /\ [][ (pc = "feed" /\ sent_count >= SentCap)
           => /\ pc' = "main" /\ LastKind' = "SUMMARY"
              /\ sent_hashes' = sent_hashes /\ delivered' = delivered
              /\ body' = body /\ h' = h ]_vars
  /\ [](CapCase =>
          /\ SentSeqOf(Sources[src - 1])
               = [i \in 1..SentCap |-> EntryHash(src - 1, entries[i])]
          /\ Cardinality({ x \in sent_hashes \ loaded :
                            \E i \in 1..Len(entries) : x = EntryHash(src - 1, entries[i]) })
               = SentCap
          /\ \A i \in (SentCap + 1)..Len(entries) :
                EntryHash(src - 1, entries[i]) \notin sent_hashes)

\* The cap has cut off a feed of more than 3 unseen articles.
C4_Witness == CapCase /\ Len(entries) > SentCap

\* The hashes of the articles of the feed of source number s.
FeedHashes(s) ==
  LET f == FeedWindow(s, web[s])
  IN  { EntryHash(s, f[i]) : i \in { j \in 1..Len(f) : Valid(f[j]) } }

\* Every article of every feed is in the store this run loaded.
AllSeen == \A s \in SrcIdx : FeedHashes(s) \subseteq loaded

\* C5: a run whose loaded store holds the hash of every article of every feed
\* attempts no delivery and writes back the store it loaded.
C5_IdempotentRerun ==
  (pc = "done" /\ AllSeen) => (Attempted = {} /\ file = Stored(loaded))

\* A completed re-run over feeds that hold articles, all of them already stored.
C5_Witness ==
  /\ pc = "done" /\ AllSeen
  /\ \A s \in SrcIdx : FeedHashes(s) # {} /\ Summarised(Sources[s])

\* C6: the store is written once per run, after the last source and not before,
\* and what is written is the loaded set united with the hashes this run
\* delivered, never the hash of a delivery that only failed.
C6_SavedOnceAtEnd ==
  /\ pc \in {"main", "feed", "send"} =>
        /\ saves = 0
        /\ file \in {NoFile, Stored(loaded)}
  /\ pc = "dump" => (saves = 0 /\ src > Len(Sources))
  /\ pc = "done" =>
        /\ saves = 1
        /\ file = Stored(loaded \cup SentNow)
        /\ \A i \in EventsOf("ERROR_SEND") :
              events[i].hash \notin (loaded \cup SentNow) => events[i].hash \notin file.items

\* A completed run with a loaded store, a failed source, a failed send and a
\* successful send.
C6_Witness ==
  /\ pc = "done" /\ loaded # {}
  /\ EventsOf("ERROR_FEED") # {}
  /\ SentNow # {}
  /\ \E i \in EventsOf("ERROR_SEND") : events[i].hash \notin SentNow

\* C7 (as claimed): whenever sent_db.json exists it holds a complete store.
C7_AtomicSave == file.exists => file.complete

\* This run's events of a source.
KindsOf(s) == { events[i].kind : i \in { j \in 1..Len(events) : events[j].source = s } }

\* C8: the error of one source's feed is caught in main: the step changes nothing
\* but the loop position and the log, so the sources after it start from the
\* state they would start from without it; the failing source has no delivery
\* and no other event in the run; and the run still goes through every source.
C8_SourceIsolation ==
  /\ [][ (pc = "main" /\ LastKind' = "ERROR_FEED" /\ Len(events') = Len(events) + 1)
           => /\ pc' = "main" /\ src' = src + 1
              /\ events'[Len(events')].source = Sources[src]
              /\ UNCHANGED <<sent_hashes, file, delivered, loaded, saves, web, env>> ]_vars
  /\ [](\A s \in SrcIdx :
          "ERROR_FEED" \in KindsOf(Sources[s]) => KindsOf(Sources[s]) = {"ERROR_FEED"})
  /\ [](pc \in {"dump", "done"} =>
          \A s \in SrcIdx : KindsOf(Sources[s]) \cap {"ERROR_FEED", "SUMMARY"} # {})

\* A completed run in which the first source failed and the second delivered.
C8_Witness ==
  /\ pc = "done"
  /\ KindsOf(Sources[1]) = {"ERROR_FEED"}
  /\ "SENT" \in KindsOf(Sources[2])

\* C9 (as claimed, safety part): no run that has BOT_TOKEN and CHANNEL_ID set
\* ends with an exception that was not caught.
C9_NoUncaughtError == (env.BOT_TOKEN /\ env.CHANNEL_ID) => pc # "raised"

\* Some keyword occurs in "title summary body", letter case ignored.
KeywordHit(t, sm, b) ==
  LET text == t \o <<" ">> \o sm \o <<" ">> \o b
  IN  \E n \in 1..Len(KEYWORDS) :
        \E off \in 0..(Len(text) - Len(KEYWORDS[n])) :
          \A j \in 1..Len(KEYWORDS[n]) :
            LowerChar(KEYWORDS[n][j]) = LowerChar(text[off + j])

\* C10: an unseen article goes on to the send when a keyword occurs (letter case
\* ignored) in its title, hint and body, or when the override flag is set; it
\* is skipped as not matching otherwise; and every delivery attempt directly
\* follows the [MATCH] of the same article.
C10_FilterPolicy ==
  /\ LastKind = "MATCH" =>
        /\ pc = "send"
        /\ (KeywordHit(title, summary_hint, body) \/ allow_all)
  /\ LastKind = "SKIP_NOMATCH" =>
        /\ pc = "feed"
        /\ ~KeywordHit(title, summary_hint, body) /\ ~allow_all
  /\ \A i \in EventsOf("SENT") \cup EventsOf("ERROR_SEND") :
        /\ i > 1
        /\ events[i - 1] = Event("MATCH", events[i].source, events[i].hash)

\* With the flag off: one article was skipped for want of a keyword and another
\* goes to the send because of a keyword that only its body holds, in capitals.
C10_Witness ==
  /\ ~allow_all /\ pc = "send"
  /\ EventsOf("SKIP_NOMATCH") # {}
  /\ ~KeywordHit(title, summary_hint, <<>>)
  /\ KeywordHit(<<>>, <<>>, body)

\* C11: in a run of the program as it is configured (Init takes the flag from
\* ALLOW_ALL_IF_NO_MATCH) an article with no keyword in its title, hint or body
\* is never delivered, and so its hash never enters the store.
C11_NoMatchNeverDelivered ==
  (LastKind = "SENT" /\ h \in sent_hashes) => KeywordHit(title, summary_hint, body)

\* ------------------------------------------------- the summarizer on its own
MaxTextLen == 5
MaxBudget == 5

\* Every text of at most n characters over the given characters.
TextsUpTo(chars, n) == UNION { [1..k -> chars] : k \in 0..n }

\* Letters, a sentence end and whitespace.
SummaryChars == {"a", ".", " "}

RemoteAnswers ==
  { RemoteError, RemoteOther, RemoteSummary(<<>>), RemoteSummary(<<" ">>),
    RemoteSummary(<<"a"," "," ","a",".">>),
    RemoteSummary(<<"a","a","a","a","a","a","a","a">>) }

\* The variables of a run, which a function applied on its own leaves alone.
runvars == <<env, allow_all, file, world, pc, sent_hashes, src, loopv, locals,
             run, loaded, events, saves, delivered, prevFailed, prevSent,
             prevRejected>>

NoRun(flag) == InitRun(flag) /\ web = [s \in SrcIdx |-> 0]

\* hf_summarize(text, max_chars) is about to be called, HF_TOKEN set or not.
SummaryInit ==
  /\ NoRun(ALLOW_ALL_IF_NO_MATCH)
  /\ probe \in { [fn |-> "hf_summarize", text |-> t, max_chars |-> b, token |-> k,
                  resp |-> r, done |-> FALSE, out |-> <<>>] :
                   t \in TextsUpTo(SummaryChars, MaxTextLen), b \in 0..MaxBudget,
                   k \in BOOLEAN, r \in RemoteAnswers }

Summarize ==
  /\ probe.fn = "hf_summarize"
  /\ ~probe.done
  /\ probe' = [probe EXCEPT
                 !.done = TRUE,
                 !.out = hf_summarize(probe.text, probe.max_chars, probe.token, probe.resp)]
  /\ UNCHANGED runvars

SummaryNext == Summarize

SummarySpec == SummaryInit /\ [][SummaryNext]_vars

Summarized == probe.fn = "hf_summarize" /\ probe.done

\* C12: for every text and budget the result of hf_summarize is at most the
\* budget long, on the remote path and on the local one, and without HF_TOKEN it
\* is the result of simple_lead_summary(text, budget).
C12_WithinBudget ==
  Summarized =>
    /\ Len(probe.out) <= probe.max_chars
    /\ ~probe.token => probe.out = simple_lead_summary(probe.text, probe.max_chars)

\* C13: hf_summarize returns a non-empty text for every non-empty input (and a
\* budget of at least one character), whatever the endpoint answers: an error, a
\* document of another shape, or a summary text that is empty or whitespace.
C13_NonEmptyResult ==
  (Summarized /\ probe.text # <<>> /\ probe.max_chars > 0) => probe.out # <<>>

\* Position of a source in the configured order.
SourcePos(s) == CHOOSE i \in SrcIdx : Sources[i] = s

\* The hashes of this run's delivery attempts of a source, in order.
AttemptSeqOf(s) ==
  LET ev == SelectSeq(events,
                      LAMBDA e : e.kind \in {"SENT", "ERROR_SEND"} /\ e.source = s)
  IN  [i \in 1..Len(ev) |-> ev[i].hash]

\* The hashes of the entries with title and link of a source's feed, in feed order.
FeedHashSeq(s) ==
  LET f == SelectSeq(FeedWindow(s, web[s]), Valid)
  IN  [i \in 1..Len(f) |-> EntryHash(s, f[i])]

\* a is b with some elements left out, the order kept.
RECURSIVE IsSubSeq(_, _)
IsSubSeq(a, b) ==
  IF a = <<>> THEN TRUE
  ELSE IF b = <<>> THEN FALSE
  ELSE IF Head(a) = Head(b) THEN IsSubSeq(Tail(a), Tail(b))
  ELSE IsSubSeq(a, Tail(b))

\* C14: within a run the sources are processed one at a time in the configured
\* order and each feed in feed order: the log never goes back to an earlier
\* source, nothing of a source follows the end of its processing, and the
\* delivery attempts of a source follow the order of its feed.
C14_SourceAndFeedOrder ==
  /\ \A i, j \in 1..Len(events) :
        i < j =>
          /\ SourcePos(events[i].source) <= SourcePos(events[j].source)
          /\ events[i].kind \in {"SUMMARY", "ERROR_FEED"} =>
                SourcePos(events[i].source) < SourcePos(events[j].source)
  /\ \A s \in SrcIdx : IsSubSeq(AttemptSeqOf(Sources[s]), FeedHashSeq(s))
  /\ pc \in {"feed", "send"} =>
        \A i \in 1..Len(events) : SourcePos(events[i].source) <= src

\* A finished run that attempted three different articles of the first source,
\* one of them failing, and then one of the second source.
C14_Witness ==
  /\ pc = "done"
  /\ Cardinality({ AttemptSeqOf(Sources[1])[i] :
                     i \in 1..Len(AttemptSeqOf(Sources[1])) }) >= 3
  /\ \E i \in EventsOf("ERROR_SEND") : events[i].source = Sources[1]
  /\ Len(AttemptSeqOf(Sources[2])) >= 1

\* C15: a delivered article is sent as a picture with its caption when its feed
\* entry carries an image URL and as plain text otherwise; either way to the
\* configured channel, in the topic THREAD_ID names when it is set.
C15_DeliveryModeAndTarget ==
  LastKind = "SENT" =>
    /\ call.method =
         (IF entries[idx - 1].image # <<>> THEN "send_photo" ELSE "send_message")
    /\ call.chat_id = "CHANNEL_ID"
    /\ call.thread = (IF env.THREAD_ID = <<>> THEN {} ELSE {7})

\* ------------------------------------------------------ mk_hash on its own
MaxFieldLen == 2

\* Titles and links as process_feed hashes them: not empty (the entries without
\* title or link are skipped before), here over a letter and the colon.
Fields == TextsUpTo({"a", ":"}, MaxFieldLen) \ {<<>>}

\* source, title and link of an article.
Triples == { <<s, t, l>> : s \in { Sources[i] : i \in SrcIdx }, t \in Fields, l \in Fields }

\* mk_hash is about to be called for two articles.
HashInit ==
  /\ NoRun(ALLOW_ALL_IF_NO_MATCH)
  /\ probe \in { [fn |-> "mk_hash", a |-> x, b |-> y, done |-> FALSE,
                  out |-> <<>>] : x \in Triples, y \in Triples }

Hash ==
  /\ probe.fn = "mk_hash"
  /\ ~probe.done
  /\ probe' = [probe EXCEPT
                 !.done = TRUE,
                 !.out = << mk_hash(probe.a[1], probe.a[2], probe.a[3]),
                            mk_hash(probe.b[1], probe.b[2], probe.b[3]) >>]
  /\ UNCHANGED runvars

HashNext == Hash

HashSpec == HashInit /\ [][HashNext]_vars

Hashed == probe.fn = "mk_hash" /\ probe.done

\* The number of fields (source, title, link) in which two articles differ.
FieldsChanged(x, y) == Cardinality({ i \in 1..3 : x[i] # y[i] })

\* C16: the hash is a function of source, title and link alone: the same three
\* values give the same hash, and two articles that differ in exactly one of
\* the three fields have different hashes.
C16_HashOfTriple ==
  Hashed =>
    /\ FieldsChanged(probe.a, probe.b) = 0 => probe.out[1] = probe.out[2]
    /\ FieldsChanged(probe.a, probe.b) = 1 => probe.out[1] # probe.out[2]

\* Two hashed articles that differ in the link alone, the links holding "::".
C16_Witness ==
  /\ Hashed
  /\ probe.a[1] = probe.b[1] /\ probe.a[2] = probe.b[2]
  /\ probe.a[3] = <<":", ":">> /\ probe.b[3] = <<"a", ":">>
  /\ probe.out[1] # probe.out[2]

\* C20: two articles whose (source, title, link) differ in any way never have
\* the same dedup key, titles and links that hold "::" included.
C20_KeyIdentifiesArticle ==
  (Hashed /\ probe.a # probe.b) => probe.out[1] # probe.out[2]

\* BOT_TOKEN or CHANNEL_ID is not set in the environment of the process.
CredentialMissing == ~(env.BOT_TOKEN /\ env.CHANNEL_ID)

\* C17: a process started without BOT_TOKEN or without CHANNEL_ID stops at the
\* assertion: it never gets past it, and up to its end no feed is parsed, no page
\* fetched, nothing summarized, no Bot API call made, sent_db.json not loaded
\* and not written.
C17_StartupAbort ==
  /\ [](CredentialMissing =>
          /\ pc \in {"off", "env", "aborted"}
          /\ events = <<>> /\ entries = <<>> /\ body = <<>> /\ summary = <<>>
          /\ call = NoCall
          /\ loaded = {} /\ sent_hashes = {} /\ saves = 0)
  /\ [][(CredentialMissing' \/ pc' = "aborted") => (file' = file /\ delivered' = delivered)]_vars

\* A process that stopped at the assertion while sent_db.json holds hashes.
C17_Witness ==
  /\ pc = "aborted" /\ CredentialMissing
  /\ file.exists /\ file.items # {}
  /\ sent_hashes = {}

\* Number of this run's events of one kind of a source.
CountOf(k, s) == Cardinality({ i \in EventsOf(k) : events[i].source = s })

\* process_feed has just returned for source number src - 1.
Returned == pc = "main" /\ LastKind = "SUMMARY" /\ src > 1

\* Entries of the returned feed with title and link whose hash the run did not load.
UnseenEntries ==
  { i \in 1..Len(entries) :
      Valid(entries[i]) /\ EntryHash(src - 1, entries[i]) \notin loaded }

\* C18: only a delivery that succeeded counts toward the cap: the delivered
\* count of the running process_feed is the number of its [SENT] events and
\* changes only with a [SENT]; a source that returns with fewer than 3
\* deliveries has had every entry of its feed checked, each unseen one ending
\* in an attempt or a rejection; and when all its deliveries failed, every
\* unseen entry that passed the filter was attempted.
C18_OnlySuccessCounts ==
  /\ [](pc \in {"feed", "send"} => sent_count = CountOf("SENT", Sources[src]))
  /\ [][sent_count' # sent_count =>
          \/ sent_count' = 0 /\ pc \notin {"feed", "send"}
          \/ /\ sent_count' = sent_count + 1
             /\ Len(events') = Len(events) + 1 /\ LastKind' = "SENT"]_vars
  /\ []((Returned /\ CountOf("SENT", Sources[src - 1]) < SentCap) =>
          /\ total_checked = Len(entries)
          /\ \A i \in UnseenEntries :
               \E j \in 1..Len(events) :
                 /\ events[j].kind \in {"SENT", "ERROR_SEND", "SKIP_NOMATCH"}
                 /\ events[j].source = Sources[src - 1]
                 /\ events[j].hash = EntryHash(src - 1, entries[i]))
  /\ []((Returned /\ CountOf("SENT", Sources[src - 1]) = 0) =>
          CountOf("ERROR_SEND", Sources[src - 1])
            + CountOf("SKIP_NOMATCH", Sources[src - 1]) = Cardinality(UnseenEntries))

\* The first source returned with no delivery after more failed attempts than
\* the cap, the override flag off.
C18_Witness ==
  /\ Returned /\ src = 2
  /\ ~allow_all
  /\ CountOf("SENT", Sources[1]) = 0
  /\ CountOf("ERROR_SEND", Sources[1]) > SentCap

\* This run evaluated the article: its body was fetched and the filter applied.
Evaluated(s, x) ==
  \E i \in EventsOf("MATCH") \cup EventsOf("SKIP_NOMATCH") :
    events[i].source = s /\ events[i].hash = x

====
